---- MODULE Spec2Model ----
(***************************************************************************)
(* State-machine model of contracts/ReFi_Grant_Fhe.sol (ReFiGrantFHE):     *)
(* access control, pause flag, cooldown throttle, batch ledger, encrypted  *)
(* application store and the request/callback decryption protocol.         *)
(*                                                                         *)
(* Every external function of the contract is one action, taken in one     *)
(* step (the platform serializes calls).  A call that reverts leaves the   *)
(* whole storage as it was and is recorded in lastCall with the name of    *)
(* its error; a call that returns is recorded with err = "ok".  emitted    *)
(* holds the log records of that call.  nextTransaction ends the           *)
(* transaction and fixes the block.timestamp of the next one.              *)
(*                                                                         *)
(* Collaborators outside the contract (FHE engine, decryption oracle, KMS  *)
(* signatures, keccak256) are modelled by what the contract relies on:     *)
(* handles are opaque numbers, 0 is the uninitialized handle, fheMul is a  *)
(* deterministic injective function of its operand handles, the oracle     *)
(* issues request ids from a counter and remembers the handles it was      *)
(* given, and keccak256 is injective and never yields the zero word.       *)
(*                                                                         *)
(* staleRequests is a history variable, written by no code: it remembers   *)
(* the requests whose batch received a submission after they were issued.  *)
(***************************************************************************)
EXTENDS Integers, Sequences, FiniteSets, TLC

\* ------------------------------------------------------------------ bounds
MaxRequests == 2        \* disclosure requests the oracle issues in a run
MaxTicks == 1           \* the clock takes the values 0, TimeStep, .., MaxTicks * TimeStep
TimeStep == 60          \* seconds between two clock values
UintBits == 16          \* width of the unsigned words (uint256 scaled down)
PlainBits == 15         \* width of the encrypted plaintexts (euint32 scaled down)

DefaultCooldown == 60   \* constructor: cooldownSeconds = 60

UintMax == (2 ^ UintBits) - 1
PlainMod == 2 ^ PlainBits

Deployer == "a1"
Actors == {"a1", "a2"}                 \* addresses (msg.sender, owner, providers)
Batches == {0, 1}                      \* batch ids
Times == {k * TimeStep : k \in 0..MaxTicks}
CooldownChoices == {0, DefaultCooldown, UintMax}   \* setCooldownSeconds arguments
InputHandles == {1, 2}                 \* initialized ciphertext handles a caller may pass
ZeroHandle == 0                        \* euint32(0): the uninitialized handle
RequestIds == 0..MaxRequests           \* id MaxRequests is never issued
Proofs == {"kms", "forged"}

\* ------------------------------------------------------------------ state
VARIABLES
    owner,                      \* address public owner
    isProvider,                 \* mapping(address => bool)
    paused,                     \* bool public paused
    cooldownSeconds,            \* uint256 public cooldownSeconds
    lastSubmissionTime,         \* mapping(address => uint256)
    lastDecryptionRequestTime,  \* mapping(address => uint256)
    applications,               \* mapping(uint256 => GrantApplication)
    batchActive,                \* mapping(uint256 => bool)
    decryptionContexts,         \* mapping(uint256 => DecryptionContext)
    counterRequest,             \* oracle bridge: next request id
    requestedHandles,           \* oracle bridge: handle sent with each request id
    now,                        \* block.timestamp
    staleRequests,              \* history: requests whose batch was resubmitted since
    lastCall,                   \* the latest call and its outcome
    emitted                     \* log records of the latest call

storage == <<owner, isProvider, paused, cooldownSeconds, lastSubmissionTime,
             lastDecryptionRequestTime, applications, batchActive,
             decryptionContexts, counterRequest, requestedHandles>>

vars == <<owner, isProvider, paused, cooldownSeconds, lastSubmissionTime,
          lastDecryptionRequestTime, applications, batchActive,
          decryptionContexts, counterRequest, requestedHandles,
          now, staleRequests, lastCall, emitted>>

\* ------------------------------------------------- external collaborators
\* FHE.isInitialized: a handle is initialized iff it is not the zero word.
isInitialized_off(h) == TRUE

isInitialized(h) == h # ZeroHandle

\* fheMul that multiplies the first operand by itself.
fheMul_squared(a, b) == (a * 16) + a

\* fheMul: the engine derives the result handle from the operand handles.
fheMul(a, b) == (a * 16) + b

\* Plaintext behind an input handle, and behind a product handle (what the
\* oracle decrypts): the product of the operands' plaintexts in the engine's
\* width.
\* Handles 3 and 5 hold plaintexts at the overflow boundary of the width,
\* handle 4 holds 0.
PlainOf(h) ==
    CASE h = 1 -> 100
      [] h = 2 -> 4
      [] h = 3 -> (PlainMod \div 2) + 1
      [] h = 5 -> PlainMod \div 4
      [] OTHER -> 0

Decrypt(h) ==
    IF h < 16 THEN PlainOf(h)
    ELSE (PlainOf(h \div 16) * PlainOf(h % 16)) % PlainMod

\* keccak256(abi.encode(cts, address(this))) for the one-element array cts:
\* injective in the handle, never the zero word.
hashCiphertexts(h) == h + 1

ZeroHash == 0

\* FHE.checkSignatures(requestId, cleartexts, proof): returns iff the request
\* id was issued and the KMS signature covers the requested handle and the
\* cleartext; reverts otherwise.
checkSignatures_off(requestId, cleartext, proof) == TRUE

checkSignatures(requestId, cleartext, proof) ==
    /\ proof = "kms"
    /\ requestId < counterRequest
    /\ cleartext = Decrypt(requestedHandles[requestId])

\* Checked uint addition (Solidity ^0.8): the sum reverts with Panic(0x11)
\* when it leaves the word.
addOverflows(a, b) == a + b > UintMax

\* ---------------------------------------------------------------- helpers
Call(op, sender, err) == [op |-> op, sender |-> sender, err |-> err]

\* No call is being executed: the previous transaction is over.
NoCall == Call("none", "none", "ok")

Ready == lastCall = NoCall

\* A reverting call: nothing is written, nothing is logged.
Revert(op, sender, err) ==
    /\ Ready
    /\ lastCall' = Call(op, sender, err)
    /\ emitted' = <<>>
    /\ UNCHANGED <<storage, now, staleRequests>>

\* A returning call: its outcome and the records it logged.
Return(op, sender, events) ==
    /\ Ready
    /\ lastCall' = Call(op, sender, "ok")
    /\ emitted' = events
    /\ now' = now

EmptyApplication ==
    [encryptedAmount |-> ZeroHandle, encryptedScore |-> ZeroHandle,
     encryptedGrantAmount |-> ZeroHandle]

EmptyContext == [batchId |-> 0, stateHash |-> ZeroHash, processed |-> FALSE]

\* Requests issued so far.
Issued == {r \in RequestIds : r < counterRequest}

\* An oracle bridge that hands out the previous request id again.
requestDecryption_reused == IF counterRequest > 0 THEN counterRequest - 1 ELSE counterRequest

\* FHE.requestDecryption: the request id the oracle bridge returns, fresh for
\* every request.
requestDecryption == counterRequest

\* ----------------------------------------------------------------- guards
onlyOwner_off(sender) == TRUE

onlyOwner(sender) == sender = owner

onlyProvider_orOwner(sender) == isProvider[sender] \/ sender = owner

onlyProvider(sender) == isProvider[sender]

whenNotPaused_off == TRUE

whenNotPaused == ~paused

\* block.timestamp < last + cooldownSeconds
cooldownActive(last) == now < last + cooldownSeconds

replayAttempt_off(requestId) == FALSE

\* myCallback, first check: the context is already processed.
replayAttempt(requestId) == decryptionContexts[requestId].processed

stateMismatch_off(requestId) == FALSE

\* myCallback, second check: the hash of the grant handle now stored for the
\* context's batch differs from the hash committed at request time.
stateMismatch(requestId) ==
    hashCiphertexts(applications[decryptionContexts[requestId].batchId].encryptedGrantAmount)
        # decryptionContexts[requestId].stateHash

\* ------------------------------------------------------------------- Init
\* The state the constructor leaves, deployed by Deployer at time 0.
Init ==
    /\ owner = Deployer
    /\ isProvider = [a \in Actors |-> a = Deployer]
    /\ paused = FALSE
    /\ cooldownSeconds = DefaultCooldown
    /\ lastSubmissionTime = [a \in Actors |-> 0]
    /\ lastDecryptionRequestTime = [a \in Actors |-> 0]
    /\ applications = [b \in Batches |-> EmptyApplication]
    /\ batchActive = [b \in Batches |-> FALSE]
    /\ decryptionContexts = [r \in RequestIds |-> EmptyContext]
    /\ counterRequest = 0
    /\ requestedHandles = [r \in RequestIds |-> ZeroHandle]
    /\ now = 0
    /\ staleRequests = {}
    /\ lastCall = Call("constructor", Deployer, "ok")
    /\ emitted = << <<"ProviderAdded", Deployer>> >>

\* ---------------------------------------------------------------- actions
transferOwnership(sender, newOwner) ==
    IF ~onlyOwner(sender) THEN Revert("transferOwnership", sender, "NotOwner")
    ELSE
        /\ Return("transferOwnership", sender,
                  << <<"OwnershipTransferred", owner, newOwner>> >>)
        /\ owner' = newOwner
        /\ UNCHANGED <<isProvider, paused, cooldownSeconds, lastSubmissionTime,
                       lastDecryptionRequestTime, applications, batchActive,
                       decryptionContexts, counterRequest, requestedHandles,
                       staleRequests>>

\* addProvider without the membership test: it logs on every call.
addProvider_alwaysEmits(sender, provider) ==
    IF ~onlyOwner(sender) THEN Revert("addProvider", sender, "NotOwner")
    ELSE
        /\ Return("addProvider", sender, << <<"ProviderAdded", provider>> >>)
        /\ isProvider' = [isProvider EXCEPT ![provider] = TRUE]
        /\ UNCHANGED <<owner, paused, cooldownSeconds, lastSubmissionTime,
                       lastDecryptionRequestTime, applications, batchActive,
                       decryptionContexts, counterRequest, requestedHandles,
                       staleRequests>>

addProvider(sender, provider) ==
    IF ~onlyOwner(sender) THEN Revert("addProvider", sender, "NotOwner")
    ELSE
        /\ Return("addProvider", sender,
                  IF ~isProvider[provider] THEN << <<"ProviderAdded", provider>> >> ELSE <<>>)
        /\ isProvider' = IF ~isProvider[provider]
                         THEN [isProvider EXCEPT ![provider] = TRUE]
                         ELSE isProvider
        /\ UNCHANGED <<owner, paused, cooldownSeconds, lastSubmissionTime,
                       lastDecryptionRequestTime, applications, batchActive,
                       decryptionContexts, counterRequest, requestedHandles,
                       staleRequests>>

removeProvider(sender, provider) ==
    IF ~onlyOwner(sender) THEN Revert("removeProvider", sender, "NotOwner")
    ELSE
        /\ Return("removeProvider", sender,
                  IF isProvider[provider] THEN << <<"ProviderRemoved", provider>> >> ELSE <<>>)
        /\ isProvider' = IF isProvider[provider]
                         THEN [isProvider EXCEPT ![provider] = FALSE]
                         ELSE isProvider
        /\ UNCHANGED <<owner, paused, cooldownSeconds, lastSubmissionTime,
                       lastDecryptionRequestTime, applications, batchActive,
                       decryptionContexts, counterRequest, requestedHandles,
                       staleRequests>>

pause_unrecorded(sender) ==
    IF ~onlyOwner(sender) THEN Revert("pause", sender, "NotOwner")
    ELSE IF ~whenNotPaused THEN Revert("pause", sender, "PausedError")
    ELSE
        /\ Return("pause", sender, <<>>)
        /\ paused' = TRUE
        /\ UNCHANGED <<owner, isProvider, cooldownSeconds, lastSubmissionTime,
                       lastDecryptionRequestTime, applications, batchActive,
                       decryptionContexts, counterRequest, requestedHandles,
                       staleRequests>>

pause(sender) ==
    IF ~onlyOwner(sender) THEN Revert("pause", sender, "NotOwner")
    ELSE IF ~whenNotPaused THEN Revert("pause", sender, "PausedError")
    ELSE
        /\ Return("pause", sender, << <<"Paused", sender>> >>)
        /\ paused' = TRUE
        /\ UNCHANGED <<owner, isProvider, cooldownSeconds, lastSubmissionTime,
                       lastDecryptionRequestTime, applications, batchActive,
                       decryptionContexts, counterRequest, requestedHandles,
                       staleRequests>>

\* unpause without its check of the flag.
unpause_unchecked(sender) ==
    IF ~onlyOwner(sender) THEN Revert("unpause", sender, "NotOwner")
    ELSE
        /\ Return("unpause", sender, << <<"Unpaused", sender>> >>)
        /\ paused' = FALSE
        /\ UNCHANGED <<owner, isProvider, cooldownSeconds, lastSubmissionTime,
                       lastDecryptionRequestTime, applications, batchActive,
                       decryptionContexts, counterRequest, requestedHandles,
                       staleRequests>>

unpause(sender) ==
    IF ~onlyOwner(sender) THEN Revert("unpause", sender, "NotOwner")
    ELSE IF ~paused THEN Revert("unpause", sender, "PausedError")
    ELSE
        /\ Return("unpause", sender, << <<"Unpaused", sender>> >>)
        /\ paused' = FALSE
        /\ UNCHANGED <<owner, isProvider, cooldownSeconds, lastSubmissionTime,
                       lastDecryptionRequestTime, applications, batchActive,
                       decryptionContexts, counterRequest, requestedHandles,
                       staleRequests>>

\* setCooldownSeconds that also forgets the recorded last-action times.
setCooldownSeconds_resetsTimes(sender, newCooldownSeconds) ==
    IF ~onlyOwner(sender) THEN Revert("setCooldownSeconds", sender, "NotOwner")
    ELSE
        /\ Return("setCooldownSeconds", sender,
                  << <<"CooldownSecondsSet", cooldownSeconds, newCooldownSeconds>> >>)
        /\ cooldownSeconds' = newCooldownSeconds
        /\ lastSubmissionTime' = [a \in Actors |-> 0]
        /\ lastDecryptionRequestTime' = [a \in Actors |-> 0]
        /\ UNCHANGED <<owner, isProvider, paused, applications, batchActive,
                       decryptionContexts, counterRequest, requestedHandles,
                       staleRequests>>

\* setCooldownSeconds carrying the whenNotPaused modifier.
setCooldownSeconds_whenNotPaused(sender, newCooldownSeconds) ==
    IF ~onlyOwner(sender) THEN Revert("setCooldownSeconds", sender, "NotOwner")
    ELSE IF ~whenNotPaused THEN Revert("setCooldownSeconds", sender, "PausedError")
    ELSE
        /\ Return("setCooldownSeconds", sender,
                  << <<"CooldownSecondsSet", cooldownSeconds, newCooldownSeconds>> >>)
        /\ cooldownSeconds' = newCooldownSeconds
        /\ UNCHANGED <<owner, isProvider, paused, lastSubmissionTime,
                       lastDecryptionRequestTime, applications, batchActive,
                       decryptionContexts, counterRequest, requestedHandles,
                       staleRequests>>

setCooldownSeconds(sender, newCooldownSeconds) ==
    IF ~onlyOwner(sender) THEN Revert("setCooldownSeconds", sender, "NotOwner")
    ELSE
        /\ Return("setCooldownSeconds", sender,
                  << <<"CooldownSecondsSet", cooldownSeconds, newCooldownSeconds>> >>)
        /\ cooldownSeconds' = newCooldownSeconds
        /\ UNCHANGED <<owner, isProvider, paused, lastSubmissionTime,
                       lastDecryptionRequestTime, applications, batchActive,
                       decryptionContexts, counterRequest, requestedHandles,
                       staleRequests>>

\* openBatch without the test of line 117: it opens an open batch again.
openBatch_unchecked(sender, batchId) ==
    IF ~onlyOwner(sender) THEN Revert("openBatch", sender, "NotOwner")
    ELSE
        /\ Return("openBatch", sender, << <<"BatchOpened", batchId>> >>)
        /\ batchActive' = [batchActive EXCEPT ![batchId] = TRUE]
        /\ UNCHANGED <<owner, isProvider, paused, cooldownSeconds, lastSubmissionTime,
                       lastDecryptionRequestTime, applications,
                       decryptionContexts, counterRequest, requestedHandles,
                       staleRequests>>

openBatch(sender, batchId) ==
    IF ~onlyOwner(sender) THEN Revert("openBatch", sender, "NotOwner")
    ELSE IF batchActive[batchId] THEN Revert("openBatch", sender, "BatchAlreadyActive")
    ELSE
        /\ Return("openBatch", sender, << <<"BatchOpened", batchId>> >>)
        /\ batchActive' = [batchActive EXCEPT ![batchId] = TRUE]
        /\ UNCHANGED <<owner, isProvider, paused, cooldownSeconds, lastSubmissionTime,
                       lastDecryptionRequestTime, applications,
                       decryptionContexts, counterRequest, requestedHandles,
                       staleRequests>>

\* closeBatch that also deletes the batch's application.
closeBatch_clears(sender, batchId) ==
    IF ~onlyOwner(sender) THEN Revert("closeBatch", sender, "NotOwner")
    ELSE IF ~batchActive[batchId] THEN Revert("closeBatch", sender, "BatchNotActive")
    ELSE
        /\ Return("closeBatch", sender, << <<"BatchClosed", batchId>> >>)
        /\ batchActive' = [batchActive EXCEPT ![batchId] = FALSE]
        /\ applications' = [applications EXCEPT ![batchId] = EmptyApplication]
        /\ UNCHANGED <<owner, isProvider, paused, cooldownSeconds, lastSubmissionTime,
                       lastDecryptionRequestTime,
                       decryptionContexts, counterRequest, requestedHandles,
                       staleRequests>>

closeBatch(sender, batchId) ==
    IF ~onlyOwner(sender) THEN Revert("closeBatch", sender, "NotOwner")
    ELSE IF ~batchActive[batchId] THEN Revert("closeBatch", sender, "BatchNotActive")
    ELSE
        /\ Return("closeBatch", sender, << <<"BatchClosed", batchId>> >>)
        /\ batchActive' = [batchActive EXCEPT ![batchId] = FALSE]
        /\ UNCHANGED <<owner, isProvider, paused, cooldownSeconds, lastSubmissionTime,
                       lastDecryptionRequestTime, applications,
                       decryptionContexts, counterRequest, requestedHandles,
                       staleRequests>>

\* submitGrantApplication that writes the two operand handles only and keeps
\* the grant handle stored before.
submitGrantApplication_keepsGrant(sender, batchId, encryptedAmount, encryptedScore) ==
    LET op == "submitGrantApplication" IN
    IF ~onlyProvider(sender) THEN Revert(op, sender, "NotProvider")
    ELSE IF ~whenNotPaused THEN Revert(op, sender, "PausedError")
    ELSE IF ~batchActive[batchId] THEN Revert(op, sender, "BatchNotActive")
    ELSE IF addOverflows(lastSubmissionTime[sender], cooldownSeconds)
    THEN Revert(op, sender, "Panic")
    ELSE IF cooldownActive(lastSubmissionTime[sender])
    THEN Revert(op, sender, "CooldownActive")
    ELSE
        /\ Return(op, sender,
                  << <<"GrantSubmitted", sender, batchId, encryptedAmount, encryptedScore>> >>)
        /\ lastSubmissionTime' = [lastSubmissionTime EXCEPT ![sender] = now]
        /\ applications' = [applications EXCEPT
                ![batchId].encryptedAmount = encryptedAmount,
                ![batchId].encryptedScore = encryptedScore]
        /\ staleRequests' = staleRequests \cup
                {r \in Issued : /\ decryptionContexts[r].batchId = batchId
                                /\ ~decryptionContexts[r].processed}
        /\ UNCHANGED <<owner, isProvider, paused, cooldownSeconds,
                       lastDecryptionRequestTime, batchActive,
                       decryptionContexts, counterRequest, requestedHandles>>

\* submitGrantApplication with one last-action map for both kinds: it records
\* the submission as a disclosure request too.
submitGrantApplication_sharedClock(sender, batchId, encryptedAmount, encryptedScore) ==
    LET op == "submitGrantApplication" IN
    IF ~onlyProvider(sender) THEN Revert(op, sender, "NotProvider")
    ELSE IF ~whenNotPaused THEN Revert(op, sender, "PausedError")
    ELSE IF ~batchActive[batchId] THEN Revert(op, sender, "BatchNotActive")
    ELSE IF addOverflows(lastSubmissionTime[sender], cooldownSeconds)
    THEN Revert(op, sender, "Panic")
    ELSE IF cooldownActive(lastSubmissionTime[sender])
    THEN Revert(op, sender, "CooldownActive")
    ELSE
        /\ Return(op, sender,
                  << <<"GrantSubmitted", sender, batchId, encryptedAmount, encryptedScore>> >>)
        /\ lastSubmissionTime' = [lastSubmissionTime EXCEPT ![sender] = now]
        /\ lastDecryptionRequestTime' = [lastDecryptionRequestTime EXCEPT ![sender] = now]
        /\ applications' = [applications EXCEPT ![batchId] =
                [encryptedAmount |-> encryptedAmount,
                 encryptedScore |-> encryptedScore,
                 encryptedGrantAmount |-> ZeroHandle]]
        /\ staleRequests' = staleRequests \cup
                {r \in Issued : /\ decryptionContexts[r].batchId = batchId
                                /\ ~decryptionContexts[r].processed}
        /\ UNCHANGED <<owner, isProvider, paused, cooldownSeconds, batchActive,
                       decryptionContexts, counterRequest, requestedHandles>>

submitGrantApplication(sender, batchId, encryptedAmount, encryptedScore) ==
    LET op == "submitGrantApplication" IN
    IF ~onlyProvider(sender) THEN Revert(op, sender, "NotProvider")
    ELSE IF ~whenNotPaused THEN Revert(op, sender, "PausedError")
    ELSE IF ~batchActive[batchId] THEN Revert(op, sender, "BatchNotActive")
    ELSE IF addOverflows(lastSubmissionTime[sender], cooldownSeconds)
    THEN Revert(op, sender, "Panic")
    ELSE IF cooldownActive(lastSubmissionTime[sender])
    THEN Revert(op, sender, "CooldownActive")
    ELSE
        /\ Return(op, sender,
                  << <<"GrantSubmitted", sender, batchId, encryptedAmount, encryptedScore>> >>)
        /\ lastSubmissionTime' = [lastSubmissionTime EXCEPT ![sender] = now]
        /\ applications' = [applications EXCEPT ![batchId] =
                [encryptedAmount |-> encryptedAmount,
                 encryptedScore |-> encryptedScore,
                 encryptedGrantAmount |-> ZeroHandle]]
        /\ staleRequests' = staleRequests \cup
                {r \in Issued : /\ decryptionContexts[r].batchId = batchId
                                /\ ~decryptionContexts[r].processed}
        /\ UNCHANGED <<owner, isProvider, paused, cooldownSeconds,
                       lastDecryptionRequestTime, batchActive,
                       decryptionContexts, counterRequest, requestedHandles>>

\* calculateAndRequestGrantAmountDecryption whose InvalidBatch failure keeps
\* the write of line 147 instead of undoing it.
calculateAndRequestGrantAmountDecryption_keepsWrite(sender, batchId) ==
    LET op == "calculateAndRequestGrantAmountDecryption"
        app == applications[batchId]
        encryptedGrantAmount == fheMul(app.encryptedAmount, app.encryptedScore)
        stateHash == hashCiphertexts(encryptedGrantAmount)
        requestId == requestDecryption
    IN
    IF ~onlyOwner(sender) THEN Revert(op, sender, "NotOwner")
    ELSE IF ~whenNotPaused THEN Revert(op, sender, "PausedError")
    ELSE IF addOverflows(lastDecryptionRequestTime[sender], cooldownSeconds)
    THEN Revert(op, sender, "Panic")
    ELSE IF cooldownActive(lastDecryptionRequestTime[sender])
    THEN Revert(op, sender, "CooldownActive")
    ELSE IF ~isInitialized(app.encryptedAmount) \/ ~isInitialized(app.encryptedScore)
    THEN
        /\ Ready
        /\ lastCall' = Call(op, sender, "InvalidBatch")
        /\ emitted' = <<>>
        /\ lastDecryptionRequestTime' = [lastDecryptionRequestTime EXCEPT ![sender] = now]
        /\ UNCHANGED <<owner, isProvider, paused, cooldownSeconds, lastSubmissionTime,
                       applications, batchActive, decryptionContexts, counterRequest,
                       requestedHandles, now, staleRequests>>
    ELSE
        /\ counterRequest < MaxRequests
        /\ Return(op, sender, << <<"DecryptionRequested", requestId, batchId, stateHash>> >>)
        /\ lastDecryptionRequestTime' = [lastDecryptionRequestTime EXCEPT ![sender] = now]
        /\ applications' = [applications EXCEPT
                ![batchId].encryptedGrantAmount = encryptedGrantAmount]
        /\ requestedHandles' = [requestedHandles EXCEPT ![requestId] = encryptedGrantAmount]
        /\ counterRequest' = counterRequest + 1
        /\ decryptionContexts' = [decryptionContexts EXCEPT ![requestId] =
                [batchId |-> batchId, stateHash |-> stateHash, processed |-> FALSE]]
        /\ UNCHANGED <<owner, isProvider, paused, cooldownSeconds,
                       lastSubmissionTime, batchActive, staleRequests>>

calculateAndRequestGrantAmountDecryption(sender, batchId) ==
    LET op == "calculateAndRequestGrantAmountDecryption"
        app == applications[batchId]
        encryptedGrantAmount == fheMul(app.encryptedAmount, app.encryptedScore)
        stateHash == hashCiphertexts(encryptedGrantAmount)
        requestId == requestDecryption
    IN
    IF ~onlyOwner(sender) THEN Revert(op, sender, "NotOwner")
    ELSE IF ~whenNotPaused THEN Revert(op, sender, "PausedError")
    ELSE IF addOverflows(lastDecryptionRequestTime[sender], cooldownSeconds)
    THEN Revert(op, sender, "Panic")
    ELSE IF cooldownActive(lastDecryptionRequestTime[sender])
    THEN Revert(op, sender, "CooldownActive")
    ELSE IF ~isInitialized(app.encryptedAmount) THEN Revert(op, sender, "InvalidBatch")
    ELSE IF ~isInitialized(app.encryptedScore) THEN Revert(op, sender, "InvalidBatch")
    ELSE
        /\ counterRequest < MaxRequests
        /\ Return(op, sender, << <<"DecryptionRequested", requestId, batchId, stateHash>> >>)
        /\ lastDecryptionRequestTime' = [lastDecryptionRequestTime EXCEPT ![sender] = now]
        /\ applications' = [applications EXCEPT
                ![batchId].encryptedGrantAmount = encryptedGrantAmount]
        /\ requestedHandles' = [requestedHandles EXCEPT ![requestId] = encryptedGrantAmount]
        /\ counterRequest' = counterRequest + 1
        /\ decryptionContexts' = [decryptionContexts EXCEPT ![requestId] =
                [batchId |-> batchId, stateHash |-> stateHash, processed |-> FALSE]]
        /\ UNCHANGED <<owner, isProvider, paused, cooldownSeconds,
                       lastSubmissionTime, batchActive, staleRequests>>

\* myCallback that verifies the proof before its other two checks.
myCallback_proofFirst(sender, requestId, cleartexts, proof) ==
    IF ~checkSignatures(requestId, cleartexts, proof)
    THEN Revert("myCallback", sender, "DecryptionFailed")
    ELSE IF replayAttempt(requestId) THEN Revert("myCallback", sender, "ReplayAttempt")
    ELSE IF stateMismatch(requestId) THEN Revert("myCallback", sender, "StateMismatch")
    ELSE
        /\ Return("myCallback", sender,
                  << <<"DecryptionCompleted", requestId,
                       decryptionContexts[requestId].batchId, 0, 0, cleartexts>> >>)
        /\ decryptionContexts' = [decryptionContexts EXCEPT ![requestId].processed = TRUE]
        /\ UNCHANGED <<owner, isProvider, paused, cooldownSeconds, lastSubmissionTime,
                       lastDecryptionRequestTime, applications, batchActive,
                       counterRequest, requestedHandles, staleRequests>>

\* myCallback behind the pause gate.
myCallback_whenNotPaused(sender, requestId, cleartexts, proof) ==
    IF ~whenNotPaused THEN Revert("myCallback", sender, "PausedError")
    ELSE IF replayAttempt(requestId) THEN Revert("myCallback", sender, "ReplayAttempt")
    ELSE IF stateMismatch(requestId) THEN Revert("myCallback", sender, "StateMismatch")
    ELSE IF ~checkSignatures(requestId, cleartexts, proof)
    THEN Revert("myCallback", sender, "DecryptionFailed")
    ELSE
        /\ Return("myCallback", sender,
                  << <<"DecryptionCompleted", requestId,
                       decryptionContexts[requestId].batchId, 0, 0, cleartexts>> >>)
        /\ decryptionContexts' = [decryptionContexts EXCEPT ![requestId].processed = TRUE]
        /\ UNCHANGED <<owner, isProvider, paused, cooldownSeconds, lastSubmissionTime,
                       lastDecryptionRequestTime, applications, batchActive,
                       counterRequest, requestedHandles, staleRequests>>

\* myCallback that finalizes every request of the batch at once.
myCallback_finalizesBatch(sender, requestId, cleartexts, proof) ==
    IF replayAttempt(requestId) THEN Revert("myCallback", sender, "ReplayAttempt")
    ELSE IF stateMismatch(requestId) THEN Revert("myCallback", sender, "StateMismatch")
    ELSE IF ~checkSignatures(requestId, cleartexts, proof)
    THEN Revert("myCallback", sender, "DecryptionFailed")
    ELSE
        /\ Return("myCallback", sender,
                  << <<"DecryptionCompleted", requestId,
                       decryptionContexts[requestId].batchId, 0, 0, cleartexts>> >>)
        /\ decryptionContexts' =
              [r \in RequestIds |->
                  IF r \in Issued /\ decryptionContexts[r].batchId = decryptionContexts[requestId].batchId
                  THEN [decryptionContexts[r] EXCEPT !.processed = TRUE]
                  ELSE decryptionContexts[r]]
        /\ UNCHANGED <<owner, isProvider, paused, cooldownSeconds, lastSubmissionTime,
                       lastDecryptionRequestTime, applications, batchActive,
                       counterRequest, requestedHandles, staleRequests>>

myCallback(sender, requestId, cleartexts, proof) ==
    IF replayAttempt(requestId) THEN Revert("myCallback", sender, "ReplayAttempt")
    ELSE IF stateMismatch(requestId) THEN Revert("myCallback", sender, "StateMismatch")
    ELSE IF ~checkSignatures(requestId, cleartexts, proof)
    THEN Revert("myCallback", sender, "DecryptionFailed")
    ELSE
        /\ Return("myCallback", sender,
                  << <<"DecryptionCompleted", requestId,
                       decryptionContexts[requestId].batchId, 0, 0, cleartexts>> >>)
        /\ decryptionContexts' = [decryptionContexts EXCEPT ![requestId].processed = TRUE]
        /\ UNCHANGED <<owner, isProvider, paused, cooldownSeconds, lastSubmissionTime,
                       lastDecryptionRequestTime, applications, batchActive,
                       counterRequest, requestedHandles, staleRequests>>

\* The transaction is over and the next one is mined at block.timestamp t, in
\* the same block or a later one; time may also pass without any call.
nextTransaction(t) ==
    /\ t >= now
    /\ ~Ready \/ t > now
    /\ now' = t
    /\ lastCall' = NoCall
    /\ emitted' = <<>>
    /\ UNCHANGED <<storage, staleRequests>>

\* --------------------------------------------------------- specifications
\* What the oracle or an adversary may pass as the cleartext of request r:
\* the decryption of the handle the oracle was given, or another value.
CallbackCleartexts(r) ==
    {Decrypt(requestedHandles[r]), (Decrypt(requestedHandles[r]) + 1) % PlainMod}

\* Spec: access control, pause, batches and the cooldown throttle.  Every
\* actor calls every function that reads or writes them, on batch 0, with the
\* clock advancing and every cooldown choice.  myCallback reads and writes
\* none of that state (it only sets processed) and is exercised by
\* SpecProtocol, SpecLedger and SpecDerivation.
GuardBatches == {0}
GuardSubmissions == {<<1, 2>>, <<0, 2>>, <<1, 0>>}

Next ==
    \/ \E s \in Actors, n \in Actors : transferOwnership(s, n)
    \/ \E s \in Actors, p \in Actors : addProvider(s, p)
    \/ \E s \in Actors, p \in Actors : removeProvider(s, p)
    \/ \E s \in Actors : pause(s)
    \/ \E s \in Actors : unpause(s)
    \/ \E s \in Actors, c \in CooldownChoices : setCooldownSeconds(s, c)
    \/ \E s \in Actors, b \in GuardBatches : openBatch(s, b)
    \/ \E s \in Actors, b \in GuardBatches : closeBatch(s, b)
    \/ \E s \in Actors, b \in GuardBatches, h \in GuardSubmissions :
          submitGrantApplication(s, b, h[1], h[2])
    \/ \E s \in Actors, b \in GuardBatches : calculateAndRequestGrantAmountDecryption(s, b)
    \/ \E t \in Times : nextTransaction(t)

Spec == Init /\ [][Next]_vars

\* SpecProtocol: the request/callback protocol at the deployment instant.
\* The current owner makes the administrative calls (ownership transfer,
\* pause, cooldown 0, opening and closing both batches, disclosure requests);
\* every actor submits, two different submissions to batch 0 and one to
\* batch 1; every actor calls back, for every request id, with a genuine or a
\* forged proof and the right or a wrong cleartext.
ProtocolSubmissions == {<<1, 2>>, <<2, 2>>}

NextProtocol ==
    \/ \E n \in Actors : transferOwnership(owner, n)
    \/ pause(owner)
    \/ unpause(owner)
    \/ setCooldownSeconds(owner, 0)
    \/ \E b \in Batches : openBatch(owner, b)
    \/ \E b \in Batches : closeBatch(owner, b)
    \/ \E s \in Actors, h \in ProtocolSubmissions :
          submitGrantApplication(s, 0, h[1], h[2])
    \/ \E s \in Actors : submitGrantApplication(s, 1, 1, 2)
    \/ \E b \in Batches : calculateAndRequestGrantAmountDecryption(owner, b)
    \/ \E s \in Actors, r \in RequestIds, p \in Proofs :
          \E c \in CallbackCleartexts(r) : myCallback(s, r, c, p)
    \/ nextTransaction(now)

SpecProtocol == Init /\ [][NextProtocol]_vars

\* SpecLedger: the whole ledger.  Every actor calls every function of the
\* contract, myCallback included, with the clock advancing; the owner opens
\* and closes both batches, submissions and requests go to batch 0, the
\* allowlist changes for the second actor and the cooldown keeps its default
\* (Spec varies it).
LedgerProviders == Actors \ {Deployer}
LedgerCooldowns == {DefaultCooldown}
LedgerSubmissions == {<<1, 2>>}

NextLedger ==
    \/ \E s \in Actors, n \in Actors : transferOwnership(s, n)
    \/ \E s \in Actors, p \in LedgerProviders : addProvider(s, p)
    \/ \E s \in Actors, p \in LedgerProviders : removeProvider(s, p)
    \/ \E s \in Actors : pause(s)
    \/ \E s \in Actors : unpause(s)
    \/ \E s \in Actors, c \in LedgerCooldowns : setCooldownSeconds(s, c)
    \/ \E s \in Actors, b \in Batches : openBatch(s, b)
    \/ \E s \in Actors, b \in Batches : closeBatch(s, b)
    \/ \E s \in Actors, b \in GuardBatches, h \in LedgerSubmissions :
          submitGrantApplication(s, b, h[1], h[2])
    \/ \E s \in Actors, b \in GuardBatches : calculateAndRequestGrantAmountDecryption(s, b)
    \/ \E s \in Actors, r \in RequestIds, p \in Proofs :
          \E c \in CallbackCleartexts(r) : myCallback(s, r, c, p)
    \/ \E t \in Times : nextTransaction(t)

SpecLedger == Init /\ [][NextLedger]_vars

\* SpecDerivation: the disclosure path on batch 1 for plaintext pairs of the
\* engine: 100 x 4, 0 x 4, and pairs whose product reaches or passes the
\* width.  The owner sets the cooldown to 0, opens and closes the batch,
\* submits and requests; every actor calls back.
DerivationBatches == {1}
DerivationSubmissions == {<<1, 2>>, <<4, 2>>, <<3, 2>>, <<5, 2>>, <<3, 3>>}

NextDerivation ==
    \/ setCooldownSeconds(owner, 0)
    \/ \E b \in DerivationBatches : openBatch(owner, b)
    \/ \E b \in DerivationBatches : closeBatch(owner, b)
    \/ \E b \in DerivationBatches, h \in DerivationSubmissions :
          submitGrantApplication(owner, b, h[1], h[2])
    \/ \E b \in DerivationBatches : calculateAndRequestGrantAmountDecryption(owner, b)
    \/ \E s \in Actors, r \in RequestIds, p \in Proofs :
          \E c \in CallbackCleartexts(r) : myCallback(s, r, c, p)
    \/ nextTransaction(now)

SpecDerivation == Init /\ [][NextDerivation]_vars

\* SpecAudit: every function by every actor within one block, on one batch,
\* with the cooldown set to 0 or to its default, so that every kind of record
\* is logged, every function also fails, and every function is also called
\* where it changes nothing.
AuditCooldowns == {0, DefaultCooldown}

NextAudit ==
    \/ \E s \in Actors, n \in Actors : transferOwnership(s, n)
    \/ \E s \in Actors, p \in LedgerProviders : addProvider(s, p)
    \/ \E s \in Actors, p \in LedgerProviders : removeProvider(s, p)
    \/ \E s \in Actors : pause(s)
    \/ \E s \in Actors : unpause(s)
    \/ \E s \in Actors, c \in AuditCooldowns : setCooldownSeconds(s, c)
    \/ \E s \in Actors, b \in GuardBatches : openBatch(s, b)
    \/ \E s \in Actors, b \in GuardBatches : closeBatch(s, b)
    \/ \E s \in Actors, b \in GuardBatches, h \in LedgerSubmissions :
          submitGrantApplication(s, b, h[1], h[2])
    \/ \E s \in Actors, b \in GuardBatches : calculateAndRequestGrantAmountDecryption(s, b)
    \/ \E s \in Actors, r \in RequestIds, p \in Proofs :
          \E c \in CallbackCleartexts(r) : myCallback(s, r, c, p)
    \/ nextTransaction(now)

SpecAudit == Init /\ [][NextAudit]_vars

\* ----------------------------------------------------------------- claims
AdminOps ==
    {"transferOwnership", "addProvider", "removeProvider", "pause", "unpause",
     "setCooldownSeconds", "openBatch", "closeBatch",
     "calculateAndRequestGrantAmountDecryption"}

\* The step is a call of function op, returned or reverted.
OpStep(op) == lastCall'.op = op

\* The step is a call of myCallback for request r, by any caller, with any of
\* the cleartexts and proofs a caller may pass.
CallbackStep(r) ==
    \E s \in Actors, p \in Proofs, c \in CallbackCleartexts(r) : myCallback(s, r, c, p)

\* C1: once a request is processed (a callback for it has succeeded), every
\* callback for it fails with ReplayAttempt and processed stays true, whatever
\* its arguments and whatever happened in between.
C1_ExactlyOnce ==
    [][\A r \in RequestIds :
          decryptionContexts[r].processed =>
              /\ decryptionContexts'[r].processed
              /\ CallbackStep(r) => lastCall'.err = "ReplayAttempt"]_vars

C1_Witness ==
    /\ lastCall.op = "myCallback"
    /\ lastCall.err = "ReplayAttempt"
    /\ \E r \in Issued : decryptionContexts[r].processed

\* C2 (as claimed): a request whose batch received a successful submission
\* after the request was issued, while the request was unprocessed, can only
\* fail with StateMismatch in every later callback.
C2_StaleRequestAlwaysMismatch ==
    [][\A r \in staleRequests :
          CallbackStep(r) => lastCall'.err = "StateMismatch"]_vars

\* The log of the step holds the completion record of request r.
Completed(r) ==
    /\ emitted' # <<>>
    /\ emitted'[1][1] = "DecryptionCompleted"
    /\ emitted'[1][2] = r

\* C3: a request becomes processed, and its DecryptionCompleted record is
\* emitted, only in a successful myCallback step taken while the grant handle
\* stored for the request's batch is the handle that was handed to the oracle
\* and committed in stateHash when the request was issued.
C3_DisclosureOnlyOfCommittedHandle ==
    [][\A r \in RequestIds :
          (\/ ~decryptionContexts[r].processed /\ decryptionContexts'[r].processed
           \/ Completed(r)) =>
              /\ lastCall'.op = "myCallback"
              /\ lastCall'.err = "ok"
              /\ r \in Issued
              /\ Completed(r)
              /\ decryptionContexts'[r].processed
              /\ applications[decryptionContexts[r].batchId].encryptedGrantAmount
                     = requestedHandles[r]
              /\ decryptionContexts[r].stateHash = hashCiphertexts(requestedHandles[r])]_vars

C3_Witness ==
    /\ lastCall.op = "myCallback"
    /\ lastCall.err = "ok"
    /\ \E r \in Issued :
          /\ decryptionContexts[r].processed
          /\ emitted = << <<"DecryptionCompleted", r, decryptionContexts[r].batchId,
                            0, 0, Decrypt(requestedHandles[r])>> >>
    /\ staleRequests # {}

\* C4 (as claimed): submitGrantApplication succeeds iff the batch is active,
\* the caller is a provider, the contract is not paused and the cooldown has
\* elapsed; otherwise it fails with the error of a violated precondition and
\* the storage is unchanged.
C4_SubmitIffPreconditions ==
    [][\A s \in Actors, b \in Batches, h \in GuardSubmissions :
          submitGrantApplication(s, b, h[1], h[2]) =>
              LET elapsed == ~(now < lastSubmissionTime[s] + cooldownSeconds)
                  pre == batchActive[b] /\ isProvider[s] /\ ~paused /\ elapsed
                  err == lastCall'.err
              IN  /\ (err = "ok") <=> pre
                  /\ ~pre =>
                      /\ UNCHANGED storage
                      /\ \/ err = "NotProvider" /\ ~isProvider[s]
                         \/ err = "PausedError" /\ paused
                         \/ err = "BatchNotActive" /\ ~batchActive[b]
                         \/ err = "CooldownActive" /\ ~elapsed]_vars

\* C5: an administrative call by anyone but the current owner fails with
\* NotOwner, logs nothing and leaves the storage unchanged, paused or not.
C5_NonOwnerRejected ==
    [][(lastCall'.op \in AdminOps /\ lastCall'.sender # owner) =>
          /\ lastCall'.err = "NotOwner"
          /\ emitted' = <<>>
          /\ UNCHANGED storage]_vars

\* The previous owner is rejected after a transfer, while paused.
C5_Witness ==
    /\ lastCall.op \in AdminOps
    /\ lastCall.err = "NotOwner"
    /\ lastCall.sender = Deployer
    /\ owner # Deployer
    /\ paused

\* C6 (as claimed): a callback for a request id that was never issued fails
\* with UnknownRequest and leaves the storage unchanged.
C6_UnknownRequestRejected ==
    [][\A r \in RequestIds \ Issued :
          CallbackStep(r) => (lastCall'.err = "UnknownRequest" /\ UNCHANGED storage)]_vars

\* C7: while paused, no submitGrantApplication and no
\* calculateAndRequestGrantAmountDecryption succeeds, and such calls leave
\* applications, both last-action maps and the decryption contexts unchanged.
C7_PausedBlocksSubmitAndRequest ==
    [][(/\ paused
        /\ lastCall'.op \in {"submitGrantApplication",
                             "calculateAndRequestGrantAmountDecryption"}) =>
          /\ lastCall'.err # "ok"
          /\ UNCHANGED <<applications, lastSubmissionTime,
                         lastDecryptionRequestTime, decryptionContexts>>]_vars

\* A provider and the owner are turned away by the pause alone.
C7_Witness ==
    /\ paused
    /\ lastCall.err = "PausedError"
    /\ lastCall.op \in {"submitGrantApplication",
                        "calculateAndRequestGrantAmountDecryption"}

\* C8 (as claimed): for an actor whose last action of a kind was recorded at
\* t > 0, a new action of that kind, its other preconditions holding, fails
\* with CooldownActive exactly when now < t + cooldownSeconds; otherwise it
\* passes the check and, succeeding, records now; a failure records nothing.
C8_CooldownThreshold ==
    [][/\ \A s \in Actors, b \in Batches, h \in GuardSubmissions :
            (/\ submitGrantApplication(s, b, h[1], h[2])
             /\ isProvider[s] /\ ~paused /\ batchActive[b]
             /\ lastSubmissionTime[s] > 0) =>
                LET early == now < lastSubmissionTime[s] + cooldownSeconds IN
                /\ (lastCall'.err = "CooldownActive") <=> early
                /\ ~early => (lastCall'.err = "ok" /\ lastSubmissionTime'[s] = now)
                /\ early => lastSubmissionTime' = lastSubmissionTime
       /\ \A s \in Actors, b \in Batches :
            (/\ calculateAndRequestGrantAmountDecryption(s, b)
             /\ s = owner /\ ~paused
             /\ lastDecryptionRequestTime[s] > 0) =>
                LET early == now < lastDecryptionRequestTime[s] + cooldownSeconds IN
                /\ (lastCall'.err = "CooldownActive") <=> early
                /\ ~early => lastCall'.err \in {"ok", "InvalidBatch"}
                /\ lastCall'.err = "ok" => lastDecryptionRequestTime'[s] = now
                /\ lastCall'.err # "ok" =>
                       lastDecryptionRequestTime' = lastDecryptionRequestTime]_vars

\* No submission has succeeded yet: every application record is still empty
\* (a successful submission of GuardSubmissions stores an initialized handle).
NoSubmissionYet == \A b \in Batches : applications[b] = EmptyApplication

\* C9 (as claimed): the first submission of an actor who never submitted, its
\* other preconditions holding, succeeds at every clock value and for every
\* cooldownSeconds.
C9_FirstSubmissionNotThrottled ==
    [][\A s \in Actors, b \in Batches, h \in GuardSubmissions :
          (/\ submitGrantApplication(s, b, h[1], h[2])
           /\ NoSubmissionYet
           /\ isProvider[s] /\ ~paused /\ batchActive[b]) =>
              lastCall'.err = "ok"]_vars

\* C10: addProvider and removeProvider by the owner never fail; on an address
\* already in the desired state they change nothing and log nothing, otherwise
\* they change exactly that address and log one record.  Hence a second
\* addProvider(x) right after a first leaves the allowlist as the first left
\* it, and only the first logs ProviderAdded.
C10_AllowlistIdempotent ==
    [][\A x \in Actors :
          /\ addProvider(owner, x) =>
                /\ lastCall'.err = "ok"
                /\ isProvider' = [isProvider EXCEPT ![x] = TRUE]
                /\ emitted' = IF isProvider[x] THEN <<>>
                              ELSE << <<"ProviderAdded", x>> >>
                /\ isProvider[x] => UNCHANGED storage
          /\ removeProvider(owner, x) =>
                /\ lastCall'.err = "ok"
                /\ isProvider' = [isProvider EXCEPT ![x] = FALSE]
                /\ emitted' = IF isProvider[x] THEN << <<"ProviderRemoved", x>> >>
                              ELSE <<>>
                /\ ~isProvider[x] => UNCHANGED storage]_vars

\* A repeated addProvider: the address is on the allowlist and nothing was logged.
C10_Witness ==
    /\ lastCall = Call("addProvider", owner, "ok")
    /\ emitted = <<>>
    /\ \E x \in Actors : x # Deployer /\ isProvider[x]

\* C11: every batch starts closed; openBatch(b) by the owner fails with
\* BatchAlreadyActive on an open batch and otherwise opens b and no other
\* batch; closeBatch(b) by the owner fails with BatchNotActive on a closed
\* batch and otherwise closes b and no other batch; and batchActive changes in
\* no other step: not in any other call, failed call or passage of time.
C11_BatchLifecycle ==
    /\ \A b \in Batches : ~batchActive[b]
    /\ [][/\ \A b \in Batches :
              /\ openBatch(owner, b) =>
                    IF batchActive[b]
                    THEN lastCall'.err = "BatchAlreadyActive" /\ UNCHANGED batchActive
                    ELSE /\ lastCall'.err = "ok"
                         /\ batchActive' = [batchActive EXCEPT ![b] = TRUE]
              /\ closeBatch(owner, b) =>
                    IF batchActive[b]
                    THEN /\ lastCall'.err = "ok"
                         /\ batchActive' = [batchActive EXCEPT ![b] = FALSE]
                    ELSE lastCall'.err = "BatchNotActive" /\ UNCHANGED batchActive
          /\ batchActive' # batchActive =>
                /\ lastCall'.op \in {"openBatch", "closeBatch"}
                /\ lastCall'.sender = owner
                /\ lastCall'.err = "ok"]_vars

\* The batch received a submission while open, was closed, and the next
\* submission of a provider is turned away with BatchNotActive.
C11_Witness ==
    /\ lastCall.op = "submitGrantApplication"
    /\ lastCall.err = "BatchNotActive"
    /\ \E b \in Batches : ~batchActive[b] /\ applications[b] # EmptyApplication
    /\ \E s \in Actors : lastSubmissionTime[s] > 0

\* C12: a call that fails leaves the storage as it was and logs nothing.  In
\* particular a disclosure request failing with InvalidBatch records no
\* request time: the cooldown check that its caller passed still passes, so a
\* valid request right after it is not turned away with CooldownActive.
C12_AtomicFailure ==
    [][lastCall'.err # "ok" =>
          /\ UNCHANGED storage
          /\ emitted' = <<>>
          /\ lastCall'.err = "InvalidBatch" =>
                ~(now' < lastDecryptionRequestTime'[lastCall'.sender] + cooldownSeconds')]_vars

\* A request on a batch without a submission has failed with InvalidBatch
\* under a positive cooldown that the caller had passed.
C12_Witness ==
    /\ lastCall = Call("calculateAndRequestGrantAmountDecryption", owner, "InvalidBatch")
    /\ cooldownSeconds = DefaultCooldown
    /\ now >= DefaultCooldown
    /\ lastDecryptionRequestTime[owner] = 0

\* The engine's product of two plaintexts, reduced to its width.
PlainProduct(a, s) == (a * s) % PlainMod

\* C13: a callback with a valid proof for an issued, unprocessed request whose
\* batch was not resubmitted since succeeds; and every successful callback
\* sets processed and logs DecryptionCompleted with the request id, the
\* request's batch id and, as disclosed amount, the product of the plaintexts
\* of the batch's stored amount and score reduced to the engine's width.
C13_DisclosedProduct ==
    [][\A r \in RequestIds :
          LET b == decryptionContexts[r].batchId
              app == applications[b]
              product == PlainProduct(PlainOf(app.encryptedAmount),
                                      PlainOf(app.encryptedScore))
          IN  /\ (/\ r \in Issued \ staleRequests
                   /\ ~decryptionContexts[r].processed
                   /\ \E s \in Actors : myCallback(s, r, Decrypt(requestedHandles[r]), "kms"))
                  => lastCall'.err = "ok"
              /\ (CallbackStep(r) /\ lastCall'.err = "ok") =>
                    /\ decryptionContexts'[r].processed
                    /\ emitted' = << <<"DecryptionCompleted", r, b, 0, 0, product>> >>]_vars

\* A disclosure whose product passed the width: the reduced value was logged.
C13_Witness ==
    /\ lastCall.op = "myCallback"
    /\ lastCall.err = "ok"
    /\ \E r \in Issued :
          LET app == applications[decryptionContexts[r].batchId] IN
          /\ decryptionContexts[r].processed
          /\ PlainOf(app.encryptedAmount) * PlainOf(app.encryptedScore) > PlainMod
          /\ emitted = << <<"DecryptionCompleted", r, decryptionContexts[r].batchId, 0, 0,
                            PlainProduct(PlainOf(app.encryptedAmount),
                                         PlainOf(app.encryptedScore))>> >>

\* C14: a successful submitGrantApplication(b, a, s) replaces the record of
\* batch b by (a, s, uninitialized grant handle), whatever was stored before,
\* and leaves the records of all other batches as they were.
C14_LastWriteWins ==
    [][\A x \in Actors, b \in Batches, a \in InputHandles, s \in InputHandles :
          (submitGrantApplication(x, b, a, s) /\ lastCall'.err = "ok") =>
              applications' = [applications EXCEPT ![b] =
                  [encryptedAmount |-> a, encryptedScore |-> s,
                   encryptedGrantAmount |-> ZeroHandle]]]_vars

\* A submission has just replaced a record that held a derived grant handle
\* (its request went stale), while another batch keeps its derived handle.
C14_Witness ==
    /\ lastCall.op = "submitGrantApplication"
    /\ lastCall.err = "ok"
    /\ \E r \in staleRequests, b \in Batches :
          /\ b # decryptionContexts[r].batchId
          /\ applications[decryptionContexts[r].batchId].encryptedGrantAmount = ZeroHandle
          /\ isInitialized(applications[b].encryptedGrantAmount)

\* A stored context was written by a request for a submission of two
\* initialized handles: the oracle was handed the product handle of two
\* initialized operands and the context's batch holds a submission; an id
\* that was not issued has no context.
ContextsFromSubmissions ==
    \A r \in RequestIds :
        IF r \in Issued
        THEN /\ isInitialized(requestedHandles[r] \div 16)
             /\ isInitialized(requestedHandles[r] % 16)
             /\ requestedHandles[r] = fheMul(requestedHandles[r] \div 16,
                                             requestedHandles[r] % 16)
             /\ decryptionContexts[r].stateHash = hashCiphertexts(requestedHandles[r])
             /\ applications[decryptionContexts[r].batchId] # EmptyApplication
        ELSE decryptionContexts[r] = EmptyContext

\* C15: a disclosure request for a batch whose stored amount or score is
\* uninitialized never succeeds, and fails with InvalidBatch when the caller
\* is the owner, the contract is not paused and the cooldown has elapsed;
\* hence every stored context comes from a submission of two initialized
\* handles and no context exists for a batch without a submission.
C15_InvalidBatchGuard ==
    [][/\ \A x \in Actors, b \in Batches :
            (/\ calculateAndRequestGrantAmountDecryption(x, b)
             /\ \/ applications[b].encryptedAmount = ZeroHandle
                \/ applications[b].encryptedScore = ZeroHandle) =>
                /\ lastCall'.err # "ok"
                /\ decryptionContexts' = decryptionContexts
                /\ (/\ x = owner /\ ~paused
                     /\ now >= lastDecryptionRequestTime[x] + cooldownSeconds)
                       => lastCall'.err = "InvalidBatch"
       /\ ContextsFromSubmissions']_vars

\* A request on a batch that holds a submission with an uninitialized handle
\* has failed with InvalidBatch, after an earlier request had been issued.
C15_Witness ==
    /\ lastCall = Call("calculateAndRequestGrantAmountDecryption", owner, "InvalidBatch")
    /\ counterRequest > 0
    /\ \E b \in Batches :
          /\ applications[b] # EmptyApplication
          /\ ~isInitialized(applications[b].encryptedAmount)

\* C16: the context of a request id is written when the request is issued,
\* with processed false; after that its batchId and stateHash never change,
\* processed changes only from false to true and only in a successful
\* myCallback, and a processed context is never modified again.  Nothing
\* else deletes or finalizes a context.
C16_RequestLifecycle ==
    [][\A r \in RequestIds :
          LET ctx == decryptionContexts[r]
              ctxNext == decryptionContexts'[r]
          IN  /\ ctx.processed => ctxNext = ctx
              /\ (r \in Issued /\ ctxNext # ctx) =>
                    /\ ctxNext = [ctx EXCEPT !.processed = TRUE]
                    /\ lastCall'.op = "myCallback"
                    /\ lastCall'.err = "ok"
              /\ (r \notin Issued /\ ctxNext # ctx) =>
                    /\ r = counterRequest
                    /\ counterRequest' = counterRequest + 1
                    /\ ~ctxNext.processed
                    /\ lastCall' = Call("calculateAndRequestGrantAmountDecryption",
                                        owner, "ok")]_vars

\* A further request for the batch of a finalized request has been issued,
\* after a resubmission: the finalized context is still there.
C16_Witness ==
    /\ lastCall.op = "calculateAndRequestGrantAmountDecryption"
    /\ lastCall.err = "ok"
    /\ \E r \in Issued, q \in Issued :
          /\ r < q
          /\ decryptionContexts[r].processed
          /\ ~decryptionContexts[q].processed
          /\ decryptionContexts[q].batchId = decryptionContexts[r].batchId
          /\ decryptionContexts[q].stateHash # decryptionContexts[r].stateHash

\* C17: while the contract is paused the owner's transferOwnership,
\* addProvider, removeProvider, setCooldownSeconds and unpause succeed and
\* take effect, and openBatch and closeBatch succeed and take effect on a
\* closed, respectively open, batch.
C17_AdminWhilePaused ==
    [][paused =>
          /\ \A n \in Actors : transferOwnership(owner, n) =>
                (lastCall'.err = "ok" /\ owner' = n)
          /\ \A x \in Actors : addProvider(owner, x) =>
                (lastCall'.err = "ok" /\ isProvider'[x])
          /\ \A x \in Actors : removeProvider(owner, x) =>
                (lastCall'.err = "ok" /\ ~isProvider'[x])
          /\ \A c \in CooldownChoices : setCooldownSeconds(owner, c) =>
                (lastCall'.err = "ok" /\ cooldownSeconds' = c)
          /\ unpause(owner) => (lastCall'.err = "ok" /\ ~paused')
          /\ \A b \in Batches : (openBatch(owner, b) /\ ~batchActive[b]) =>
                (lastCall'.err = "ok" /\ batchActive'[b])
          /\ \A b \in Batches : (closeBatch(owner, b) /\ batchActive[b]) =>
                (lastCall'.err = "ok" /\ ~batchActive'[b])]_vars

\* The owner has changed the cooldown while paused.
C17_Witness ==
    /\ paused
    /\ lastCall = Call("setCooldownSeconds", owner, "ok")
    /\ cooldownSeconds # DefaultCooldown

\* The grant handle stored for the batch of request r is not the handle that
\* was handed to the oracle with r.
GrantHandleChanged(r) ==
    applications[decryptionContexts[r].batchId].encryptedGrantAmount # requestedHandles[r]

\* C18: a callback for a processed request fails with ReplayAttempt, whatever
\* the stored grant handle and the proof; a callback for an issued,
\* unprocessed request whose batch's grant handle changed fails with
\* StateMismatch, whatever the proof; DecryptionFailed is the outcome only for
\* an unprocessed request whose grant handle is unchanged.
C18_CallbackCheckOrder ==
    [][OpStep("myCallback") => \A r \in Issued, p \in Proofs :
          \A c \in CallbackCleartexts(r) :
              myCallback(lastCall'.sender, r, c, p) =>
                  /\ decryptionContexts[r].processed => lastCall'.err = "ReplayAttempt"
                  /\ (~decryptionContexts[r].processed /\ GrantHandleChanged(r))
                        => lastCall'.err = "StateMismatch"
                  /\ lastCall'.err = "DecryptionFailed" =>
                        (~decryptionContexts[r].processed /\ ~GrantHandleChanged(r))]_vars

\* A replayed callback for a finalized request whose batch's grant handle has
\* changed since: every processed request is in that case.
C18_Witness ==
    /\ lastCall.op = "myCallback"
    /\ lastCall.err = "ReplayAttempt"
    /\ \E r \in Issued : decryptionContexts[r].processed
    /\ \A r \in Issued : decryptionContexts[r].processed => GrantHandleChanged(r)

\* The stored amount or score of batch b is uninitialized.
InvalidBatch(b) ==
    \/ applications[b].encryptedAmount = ZeroHandle
    \/ applications[b].encryptedScore = ZeroHandle

\* C19 (as claimed): when several preconditions are violated at once, the
\* first in the order of the checks names the error.
\* submitGrantApplication: NotProvider, then PausedError, then
\* BatchNotActive, then CooldownActive.
\* calculateAndRequestGrantAmountDecryption: NotOwner, then PausedError, then
\* CooldownActive, then InvalidBatch: a too-early request on a batch without
\* two initialized handles fails with CooldownActive.
\* pause by a non-owner while paused: NotOwner.
C19_ErrorPrecedence ==
    [][/\ \A x \in Actors, b \in Batches, h \in GuardSubmissions :
            submitGrantApplication(x, b, h[1], h[2]) =>
                /\ ~isProvider[x] => lastCall'.err = "NotProvider"
                /\ (isProvider[x] /\ paused) => lastCall'.err = "PausedError"
                /\ (isProvider[x] /\ ~paused /\ ~batchActive[b])
                      => lastCall'.err = "BatchNotActive"
                /\ lastCall'.err = "CooldownActive"
                      => (isProvider[x] /\ ~paused /\ batchActive[b])
       /\ \A x \in Actors, b \in Batches :
            calculateAndRequestGrantAmountDecryption(x, b) =>
                LET early == now < lastDecryptionRequestTime[x] + cooldownSeconds IN
                /\ x # owner => lastCall'.err = "NotOwner"
                /\ (x = owner /\ paused) => lastCall'.err = "PausedError"
                /\ (x = owner /\ ~paused /\ early /\ InvalidBatch(b))
                      => lastCall'.err = "CooldownActive"
                /\ lastCall'.err = "InvalidBatch" => (x = owner /\ ~paused /\ ~early)
       /\ \A x \in Actors :
            (pause(x) /\ x # owner /\ paused) => lastCall'.err = "NotOwner"]_vars

\* C20: lastSubmissionTime[x] changes only in a successful
\* submitGrantApplication by x, and lastDecryptionRequestTime[x] only in a
\* successful calculateAndRequestGrantAmountDecryption by x, each to the
\* current block.timestamp; a successful call of one kind leaves the map of
\* the other kind, and the entries of all other actors, as they were, so that
\* the outcome of the caller's cooldown check of the other kind, and of every
\* other actor's cooldown checks, is what it was before the call.
C20_CooldownsIndependent ==
    [][\A x \in Actors :
          /\ lastCall' = Call("submitGrantApplication", x, "ok") =>
                \A y \in Actors :
                    /\ (now' < lastDecryptionRequestTime'[y] + cooldownSeconds')
                          <=> (now < lastDecryptionRequestTime[y] + cooldownSeconds)
                    /\ y # x => ((now' < lastSubmissionTime'[y] + cooldownSeconds')
                                   <=> (now < lastSubmissionTime[y] + cooldownSeconds))
          /\ lastCall' = Call("calculateAndRequestGrantAmountDecryption", x, "ok") =>
                \A y \in Actors :
                    /\ (now' < lastSubmissionTime'[y] + cooldownSeconds')
                          <=> (now < lastSubmissionTime[y] + cooldownSeconds)
                    /\ y # x => ((now' < lastDecryptionRequestTime'[y] + cooldownSeconds')
                                   <=> (now < lastDecryptionRequestTime[y] + cooldownSeconds))
          /\ lastSubmissionTime'[x] # lastSubmissionTime[x] =>
                /\ lastCall' = Call("submitGrantApplication", x, "ok")
                /\ lastSubmissionTime'[x] = now
          /\ lastDecryptionRequestTime'[x] # lastDecryptionRequestTime[x] =>
                /\ lastCall' = Call("calculateAndRequestGrantAmountDecryption", x, "ok")
                /\ lastDecryptionRequestTime'[x] = now
          /\ lastCall' = Call("submitGrantApplication", x, "ok") =>
                /\ lastSubmissionTime' = [lastSubmissionTime EXCEPT ![x] = now]
                /\ UNCHANGED lastDecryptionRequestTime
          /\ lastCall' = Call("calculateAndRequestGrantAmountDecryption", x, "ok") =>
                /\ lastDecryptionRequestTime' = [lastDecryptionRequestTime EXCEPT ![x] = now]
                /\ UNCHANGED lastSubmissionTime]_vars

\* Under the default cooldown the owner, a provider too, has submitted and
\* then requested disclosure at the same block.timestamp, while the other
\* actor's entries are untouched.
C20_Witness ==
    /\ lastCall = Call("calculateAndRequestGrantAmountDecryption", owner, "ok")
    /\ cooldownSeconds = DefaultCooldown
    /\ now > 0
    /\ lastSubmissionTime[owner] = now
    /\ lastDecryptionRequestTime[owner] = now
    /\ \E y \in Actors : lastSubmissionTime[y] = 0 /\ lastDecryptionRequestTime[y] = 0

\* C21: setCooldownSeconds by the owner succeeds, logs the old and the new
\* value and changes cooldownSeconds only; both last-action maps keep their
\* entries.  Every cooldown check compares block.timestamp with the recorded
\* time plus the cooldownSeconds stored at the time of the check: a call whose
\* other preconditions hold passes the check exactly when
\* block.timestamp >= recorded time + cooldownSeconds.
C21_SetCooldownFrame ==
    [][/\ OpStep("setCooldownSeconds") => \A c \in CooldownChoices :
            setCooldownSeconds(owner, c) =>
                /\ lastCall'.err = "ok"
                /\ cooldownSeconds' = c
                /\ emitted' = << <<"CooldownSecondsSet", cooldownSeconds, c>> >>
                /\ UNCHANGED <<owner, isProvider, paused, lastSubmissionTime,
                               lastDecryptionRequestTime, applications, batchActive,
                               decryptionContexts, counterRequest, requestedHandles>>
       /\ OpStep("submitGrantApplication") => \A x \in Actors, b \in Batches, h \in GuardSubmissions :
            (/\ submitGrantApplication(x, b, h[1], h[2])
             /\ isProvider[x] /\ ~paused /\ batchActive[b]) =>
                ((lastCall'.err = "ok")
                    <=> (now >= lastSubmissionTime[x] + cooldownSeconds))
       /\ OpStep("calculateAndRequestGrantAmountDecryption") => \A x \in Actors, b \in Batches :
            (/\ calculateAndRequestGrantAmountDecryption(x, b)
             /\ x = owner /\ ~paused) =>
                ((lastCall'.err \in {"ok", "InvalidBatch"})
                    <=> (now >= lastDecryptionRequestTime[x] + cooldownSeconds))]_vars

\* The owner has lowered the cooldown from its default to 0 while a provider's
\* submission of this very block.timestamp is on record: the record is kept
\* and the provider, blocked until now, is free to submit again.
C21_Witness ==
    /\ lastCall = Call("setCooldownSeconds", owner, "ok")
    /\ emitted = << <<"CooldownSecondsSet", DefaultCooldown, 0>> >>
    /\ cooldownSeconds = 0
    /\ now > 0
    /\ \E x \in Actors : isProvider[x] /\ lastSubmissionTime[x] = now


\* The proof p covers the cleartext c for request r.
ValidProof(r, c, p) == p = "kms" /\ c = Decrypt(requestedHandles[r])

\* C22: a callback whose proof does not verify never succeeds, never changes
\* a context and logs nothing, whoever calls; one that fails with
\* DecryptionFailed leaves the storage unchanged, the request unprocessed and
\* its grant handle the committed one, so that a callback with a valid proof
\* for the same request, taken while the grant handle is the committed one,
\* still finalizes it.
C22_FailedProofHarmless ==
    [][OpStep("myCallback") => \A r \in Issued, p \in Proofs :
          \A c \in CallbackCleartexts(r) :
              myCallback(lastCall'.sender, r, c, p) =>
                  /\ ~ValidProof(r, c, p) =>
                        /\ lastCall'.err # "ok"
                        /\ UNCHANGED decryptionContexts
                        /\ emitted' = <<>>
                  /\ lastCall'.err = "DecryptionFailed" =>
                        /\ ~ValidProof(r, c, p)
                        /\ UNCHANGED storage
                        /\ ~decryptionContexts'[r].processed
                        /\ ~GrantHandleChanged(r)'
                  /\ (/\ ValidProof(r, c, p)
                       /\ ~decryptionContexts[r].processed
                       /\ ~GrantHandleChanged(r)) =>
                        /\ lastCall'.err = "ok"
                        /\ decryptionContexts'[r].processed]_vars

\* A callback has failed proof verification while every issued request is
\* unprocessed and holds its committed grant handle.
C22_Witness ==
    /\ lastCall.op = "myCallback"
    /\ lastCall.err = "DecryptionFailed"
    /\ Issued # {}
    /\ \A r \in Issued : ~decryptionContexts[r].processed /\ ~GrantHandleChanged(r)

\* C23: there is one owner at a time; a transferOwnership(n) by the owner
\* succeeds, makes n the owner in that step and leaves the allowlist as it
\* was; the owner changes in no other step and the allowlist changes only in
\* the owner's addProvider and removeProvider; a submission by an address
\* that is not on the allowlist fails with NotProvider even when it is the
\* owner's, and an administrative call by an address that is not the owner
\* fails with NotOwner even when the address is allowlisted or was the owner
\* one step before.
C23_OwnerAndAllowlistIndependent ==
    [][/\ owner' \in Actors
       /\ OpStep("transferOwnership") => \A n \in Actors :
             transferOwnership(owner, n) =>
                 /\ lastCall'.err = "ok"
                 /\ owner' = n
                 /\ UNCHANGED isProvider
       /\ owner' # owner => lastCall' = Call("transferOwnership", owner, "ok")
       /\ isProvider' # isProvider =>
             /\ lastCall'.op \in {"addProvider", "removeProvider"}
             /\ lastCall' = Call(lastCall'.op, owner, "ok")
             /\ UNCHANGED owner
       /\ OpStep("submitGrantApplication") => \A x \in Actors, b \in Batches, h \in GuardSubmissions :
             (submitGrantApplication(x, b, h[1], h[2]) /\ ~isProvider[x]) =>
                 /\ lastCall'.err = "NotProvider"
                 /\ UNCHANGED storage
       /\ \A x \in Actors \ {owner} :
             (lastCall'.op \in AdminOps /\ lastCall'.sender = x /\ isProvider[x]) =>
                 /\ lastCall'.err = "NotOwner"
                 /\ UNCHANGED storage]_vars

\* After a transfer the new owner, who is not on the allowlist, is refused a
\* submission while the previous owner is still on the allowlist.
C23_Witness ==
    /\ lastCall = Call("submitGrantApplication", owner, "NotProvider")
    /\ owner # Deployer
    /\ ~isProvider[owner]
    /\ isProvider[Deployer]

\* The part of the storage the audit trail accounts for.
Audited ==
    [owner |-> owner, isProvider |-> isProvider, paused |-> paused,
     cooldownSeconds |-> cooldownSeconds, batchActive |-> batchActive,
     decryptionContexts |-> decryptionContexts]

\* The audited state after the constructor, read from the constructor's one
\* record, ProviderAdded(deployer).
Genesis(log) ==
    [owner |-> log[1][2],
     isProvider |-> [a \in Actors |-> a = log[1][2]],
     paused |-> FALSE,
     cooldownSeconds |-> DefaultCooldown,
     batchActive |-> [b \in Batches |-> FALSE],
     decryptionContexts |-> [r \in RequestIds |-> EmptyContext]]

\* The audited state a reader of the log derives from state a and record e.
ApplyRecord(a, e) ==
    CASE e[1] = "OwnershipTransferred" -> [a EXCEPT !.owner = e[3]]
      [] e[1] = "ProviderAdded" -> [a EXCEPT !.isProvider[e[2]] = TRUE]
      [] e[1] = "ProviderRemoved" -> [a EXCEPT !.isProvider[e[2]] = FALSE]
      [] e[1] = "Paused" -> [a EXCEPT !.paused = TRUE]
      [] e[1] = "Unpaused" -> [a EXCEPT !.paused = FALSE]
      [] e[1] = "CooldownSecondsSet" -> [a EXCEPT !.cooldownSeconds = e[3]]
      [] e[1] = "BatchOpened" -> [a EXCEPT !.batchActive[e[2]] = TRUE]
      [] e[1] = "BatchClosed" -> [a EXCEPT !.batchActive[e[2]] = FALSE]
      [] e[1] = "DecryptionRequested" ->
            [a EXCEPT !.decryptionContexts[e[2]] =
                [batchId |-> e[3], stateHash |-> e[4], processed |-> FALSE]]
      [] e[1] = "DecryptionCompleted" ->
            [a EXCEPT !.decryptionContexts[e[2]].processed = TRUE]
      [] OTHER -> a

RECURSIVE ApplyRecords(_, _)
ApplyRecords(a, log) ==
    IF log = <<>> THEN a ELSE ApplyRecords(ApplyRecord(a, Head(log)), Tail(log))

\* The record a successful call of op logs.
RecordOf(op) ==
    CASE op = "transferOwnership" -> "OwnershipTransferred"
      [] op = "addProvider" -> "ProviderAdded"
      [] op = "removeProvider" -> "ProviderRemoved"
      [] op = "pause" -> "Paused"
      [] op = "unpause" -> "Unpaused"
      [] op = "setCooldownSeconds" -> "CooldownSecondsSet"
      [] op = "openBatch" -> "BatchOpened"
      [] op = "closeBatch" -> "BatchClosed"
      [] op = "submitGrantApplication" -> "GrantSubmitted"
      [] op = "calculateAndRequestGrantAmountDecryption" -> "DecryptionRequested"
      [] op = "myCallback" -> "DecryptionCompleted"
      [] OTHER -> "none"

\* The step is a call that returned or reverted.
CallStep == lastCall' # NoCall

\* The step is a successful addProvider for an address already on the
\* allowlist or a successful removeProvider for an address not on it.
AllowlistNoOp ==
    /\ lastCall'.err = "ok"
    /\ lastCall'.op \in {"addProvider", "removeProvider"}
    /\ UNCHANGED isProvider

\* The step's one record names the transition: its kind is the function's,
\* a submission's carries the sender, the batch and the stored handles.
RecordIdentifiesStep ==
    /\ Len(emitted') = 1
    /\ emitted'[1][1] = RecordOf(lastCall'.op)
    /\ emitted'[1][1] = "GrantSubmitted" =>
          /\ emitted'[1][2] = lastCall'.sender
          /\ applications'[emitted'[1][3]].encryptedAmount = emitted'[1][4]
          /\ applications'[emitted'[1][3]].encryptedScore = emitted'[1][5]

\* The audited state after the step is the one the step's records yield from
\* the audited state before it.
Replayable == Audited' = ApplyRecords(Audited, emitted')

\* C24 (as claimed): a successful call that changes the storage logs exactly
\* one record naming the transition; a failed call and a successful call
\* that changes nothing log none; the audited state is the replay of the
\* log.
C24_AuditTrail ==
    /\ Audited = Genesis(emitted)
    /\ [][CallStep =>
            /\ Replayable
            /\ lastCall'.err # "ok" => (emitted' = <<>> /\ UNCHANGED storage)
            /\ (lastCall'.err = "ok" /\ storage' # storage) => RecordIdentifiesStep
            /\ (lastCall'.err = "ok" /\ UNCHANGED storage) => emitted' = <<>>]_vars

\* C24 (amended): every successful call logs exactly one record naming the
\* transition, except an addProvider for an address already on the allowlist
\* and a removeProvider for an address not on it, which log none and change
\* nothing; a failed call logs none and changes nothing; the audited state
\* (owner, allowlist, pause flag, cooldown, batch states, contexts) is the
\* replay of the log from the constructor's record on.
C24_AuditTrailAmended ==
    /\ Audited = Genesis(emitted)
    /\ [][CallStep =>
            /\ Replayable
            /\ lastCall'.err # "ok" => (emitted' = <<>> /\ UNCHANGED storage)
            /\ (lastCall'.err = "ok" /\ ~AllowlistNoOp) => RecordIdentifiesStep
            /\ AllowlistNoOp => (emitted' = <<>> /\ UNCHANGED storage)]_vars

\* A callback has just been recorded, after ownership went to another
\* address, the allowlist changed, the pause was toggled and the cooldown was
\* set to 0.
C24_Witness ==
    /\ lastCall.op = "myCallback"
    /\ lastCall.err = "ok"
    /\ Len(emitted) = 1
    /\ emitted[1][1] = "DecryptionCompleted"
    /\ decryptionContexts[emitted[1][2]].processed
    /\ owner # Deployer
    /\ \E a \in LedgerProviders : isProvider[a]
    /\ paused
    /\ cooldownSeconds = 0

\* C25: the owner's calculateAndRequestGrantAmountDecryption on a closed batch
\* whose amount and score are initialized succeeds when the contract is not
\* paused and the cooldown has passed, and stores an unprocessed context for
\* the batch; an openBatch or closeBatch step changes no application and no
\* context; a callback with a valid proof for an unprocessed request whose
\* grant handle is the committed one finalizes it while the request's batch
\* is closed.
C25_DisclosureOnClosedBatch ==
    [][/\ OpStep("calculateAndRequestGrantAmountDecryption") => \A b \in Batches :
             (/\ calculateAndRequestGrantAmountDecryption(owner, b)
              /\ ~batchActive[b]
              /\ ~InvalidBatch(b)
              /\ ~paused
              /\ ~cooldownActive(lastDecryptionRequestTime[owner])) =>
                 /\ lastCall'.err = "ok"
                 /\ decryptionContexts'[counterRequest].batchId = b
                 /\ ~decryptionContexts'[counterRequest].processed
                 /\ ~batchActive'[b]
       /\ lastCall'.op \in {"openBatch", "closeBatch"} => \A b \in Batches :
             (openBatch(owner, b) \/ closeBatch(owner, b)) =>
                 UNCHANGED <<applications, decryptionContexts, requestedHandles>>
       /\ OpStep("myCallback") => \A r \in Issued, p \in Proofs :
             \A c \in CallbackCleartexts(r) :
                 (/\ myCallback(lastCall'.sender, r, c, p)
                  /\ ~batchActive[decryptionContexts[r].batchId]
                  /\ ValidProof(r, c, p)
                  /\ ~decryptionContexts[r].processed
                  /\ ~GrantHandleChanged(r)) =>
                     /\ lastCall'.err = "ok"
                     /\ decryptionContexts'[r].processed
                     /\ emitted'[1][2] = r]_vars

\* A request of a closed batch has just been finalized.
C25_Witness ==
    /\ lastCall.op = "myCallback"
    /\ lastCall.err = "ok"
    /\ Len(emitted) = 1
    /\ ~batchActive[decryptionContexts[emitted[1][2]].batchId]
    /\ decryptionContexts[emitted[1][2]].processed
    /\ ~InvalidBatch(decryptionContexts[emitted[1][2]].batchId)

\* C26: a myCallback by any caller, in any state of the pause flag, of the
\* ownership and of the caller's cooldowns, ends in success, ReplayAttempt,
\* StateMismatch or DecryptionFailed and in no access, pause or cooldown
\* error; for an unprocessed request whose grant handle is the committed one
\* and with a valid proof it succeeds and sets processed, and it leaves the
\* owner, the pause flag, the cooldown and both last-action maps as they were.
C26_CallbackUngated ==
    [][OpStep("myCallback") => \A r \in RequestIds, x \in Actors, p \in Proofs :
          \A c \in CallbackCleartexts(r) :
              myCallback(x, r, c, p) =>
                  /\ lastCall'.err \in {"ok", "ReplayAttempt", "StateMismatch",
                                       "DecryptionFailed"}
                  /\ UNCHANGED <<owner, isProvider, paused, cooldownSeconds,
                                 lastSubmissionTime, lastDecryptionRequestTime>>
                  /\ (/\ r \in Issued
                      /\ ValidProof(r, c, p)
                      /\ ~decryptionContexts[r].processed
                      /\ ~GrantHandleChanged(r)) =>
                        /\ lastCall' = Call("myCallback", x, "ok")
                        /\ decryptionContexts'[r].processed]_vars

\* The previous owner, inside its own request cooldown, has finalized a
\* request while the contract is paused and owned by another address.
C26_Witness ==
    /\ lastCall = Call("myCallback", Deployer, "ok")
    /\ owner # Deployer
    /\ paused
    /\ cooldownSeconds > 0
    /\ cooldownActive(lastDecryptionRequestTime[Deployer])
    /\ \E r \in Issued : decryptionContexts[r].processed

\* C27: a successful calculateAndRequestGrantAmountDecryption on batch b
\* stores the product handle of the batch's operands as its grant handle,
\* takes a fresh request id and stores an unprocessed context under it, and
\* leaves every context issued before as it was; when an earlier request of b
\* still has its committed grant handle stored (no submission came in
\* between), the new context carries the same stateHash and the earlier
\* request's handle stays the stored one.  A successful callback for r
\* changes the context of r only; a callback with a valid proof for an
\* unprocessed request whose handle is the stored one succeeds whether or not
\* the other requests of the batch are processed, and a callback for a
\* processed request fails with ReplayAttempt.
C27_ConcurrentRequests ==
    [][/\ OpStep("calculateAndRequestGrantAmountDecryption") => \A b \in Batches :
             (/\ calculateAndRequestGrantAmountDecryption(owner, b)
              /\ lastCall'.err = "ok") =>
                 LET h == fheMul(applications[b].encryptedAmount,
                                 applications[b].encryptedScore)
                 IN  /\ applications'[b].encryptedGrantAmount = h
                     /\ counterRequest' = counterRequest + 1
                     /\ counterRequest \notin Issued
                     /\ decryptionContexts'[counterRequest] =
                           [batchId |-> b, stateHash |-> hashCiphertexts(h),
                            processed |-> FALSE]
                     /\ \A r \in Issued :
                           /\ decryptionContexts'[r] = decryptionContexts[r]
                           /\ requestedHandles'[r] = requestedHandles[r]
                           /\ (decryptionContexts[r].batchId = b /\ ~GrantHandleChanged(r)) =>
                                 /\ decryptionContexts'[counterRequest].stateHash =
                                       decryptionContexts[r].stateHash
                                 /\ ~GrantHandleChanged(r)'
       /\ OpStep("myCallback") => \A r \in Issued, p \in Proofs :
             \A c \in CallbackCleartexts(r) :
                 myCallback(lastCall'.sender, r, c, p) =>
                     /\ \A q \in RequestIds \ {r} :
                           decryptionContexts'[q] = decryptionContexts[q]
                     /\ decryptionContexts[r].processed =>
                           (lastCall'.err = "ReplayAttempt" /\ UNCHANGED storage)
                     /\ (/\ ValidProof(r, c, p)
                         /\ ~decryptionContexts[r].processed
                         /\ ~GrantHandleChanged(r)) =>
                           /\ lastCall'.err = "ok"
                           /\ decryptionContexts'[r] =
                                 [decryptionContexts[r] EXCEPT !.processed = TRUE]]_vars

\* Two requests of one batch carry the same stateHash; the later one was
\* finalized first and the earlier one has just been finalized.
C27_Witness ==
    /\ lastCall.op = "myCallback"
    /\ lastCall.err = "ok"
    /\ Len(emitted) = 1
    /\ \E r \in Issued :
          /\ r > emitted[1][2]
          /\ decryptionContexts[r].batchId = decryptionContexts[emitted[1][2]].batchId
          /\ decryptionContexts[r].stateHash = decryptionContexts[emitted[1][2]].stateHash
          /\ decryptionContexts[r].processed
          /\ decryptionContexts[emitted[1][2]].processed
          /\ ~GrantHandleChanged(r)

\* C28 (as claimed): whatever cooldown the owner has set and whatever
\* last-action time is recorded, a submitGrantApplication or
\* calculateAndRequestGrantAmountDecryption that reaches the cooldown check
\* either passes it or fails with CooldownActive, and it passes only when
\* now >= lastActionTime + cooldownSeconds.
C28_CooldownSumSafe ==
    [][/\ OpStep("submitGrantApplication") =>
             \A s \in Actors, b \in Batches, h \in GuardSubmissions :
                 (/\ submitGrantApplication(s, b, h[1], h[2])
                  /\ isProvider[s] /\ ~paused /\ batchActive[b]) =>
                     /\ lastCall'.err \in {"ok", "CooldownActive"}
                     /\ lastCall'.err = "ok" =>
                           now >= lastSubmissionTime[s] + cooldownSeconds
       /\ OpStep("calculateAndRequestGrantAmountDecryption") =>
             \A s \in Actors, b \in Batches :
                 (/\ calculateAndRequestGrantAmountDecryption(s, b)
                  /\ s = owner /\ ~paused) =>
                     /\ lastCall'.err \in {"ok", "InvalidBatch", "CooldownActive"}
                     /\ lastCall'.err \in {"ok", "InvalidBatch"} =>
                           now >= lastDecryptionRequestTime[s] + cooldownSeconds]_vars

\* C29: the contract starts not paused; the owner's pause succeeds exactly
\* when paused is false and sets it, the owner's unpause succeeds exactly
\* when paused is true and clears it, each otherwise fails with PausedError,
\* logs nothing and leaves the storage unchanged; the flag changes in no
\* other step.  Successful pause and unpause calls therefore alternate,
\* starting with pause.
C29_PauseToggleStrict ==
    /\ ~paused
    /\ [][/\ (OpStep("pause") /\ pause(owner)) =>
                IF paused
                THEN /\ lastCall'.err = "PausedError"
                     /\ emitted' = <<>>
                     /\ UNCHANGED storage
                ELSE /\ lastCall'.err = "ok"
                     /\ paused'
          /\ (OpStep("unpause") /\ unpause(owner)) =>
                IF ~paused
                THEN /\ lastCall'.err = "PausedError"
                     /\ emitted' = <<>>
                     /\ UNCHANGED storage
                ELSE /\ lastCall'.err = "ok"
                     /\ ~paused'
          /\ paused' # paused =>
                \/ lastCall' = Call("pause", owner, "ok") /\ ~paused /\ paused'
                \/ lastCall' = Call("unpause", owner, "ok") /\ paused /\ ~paused'
          /\ (lastCall'.op \in {"pause", "unpause"} /\ lastCall'.err = "ok") =>
                paused' # paused]_vars

\* The owner's unpause of a contract that is not paused has been refused.
C29_Witness ==
    /\ lastCall = Call("unpause", owner, "PausedError")
    /\ ~paused
    /\ emitted = <<>>

====
